---- MODULE Spec2Model ----
(***************************************************************************)
(* A model of product_agent_cli/main.py: the run of main() from the        *)
(* credential check to the written artifacts, and the pure helpers         *)
(* sanitize_filename and format_history_for_prompt.                        *)
(*                                                                         *)
(* A text is a sequence of one-character strings.  An optional value       *)
(* (os.getenv's result, a file that may be missing) is a sequence of       *)
(* length 0 (None / missing) or 1.                                         *)
(***************************************************************************)
EXTENDS Integers, Sequences, FiniteSets, TLC

\* Bounds of the model.
MaxInputs == 2      \* input lines read by the loop in one run
MaxLen == 4         \* length of the texts given to sanitize_filename

(***************************************************************************)
(* Text primitives (Python str methods and the re character classes).      *)
(***************************************************************************)
UpperLetters ==
    <<"A","B","C","D","E","F","G","H","I","J","K","L","M",
      "N","O","P","Q","R","S","T","U","V","W","X","Y","Z">>

LowerLetters ==
    <<"a","b","c","d","e","f","g","h","i","j","k","l","m",
      "n","o","p","q","r","s","t","u","v","w","x","y","z">>

Digits == {"0","1","2","3","4","5","6","7","8","9"}

Range(s) == {s[i] : i \in 1..Len(s)}

SetMin(S) == CHOOSE x \in S : \A y \in S : x <= y

SetMax(S) == CHOOSE x \in S : \A y \in S : x >= y

\* The ASCII control characters 0x0B, 0x1C, 0x1D, 0x1E and 0x1F: vertical
\* tab and the file, group, record and unit separators.  Each string holds
\* the character itself.
VT == ""
FS == ""
GS == ""
RS == ""
US == ""

\* str.strip() with no argument and the regex class \s: the whitespace of
\* ASCII (tab, line feed, vertical tab, form feed, carriage return, the four
\* separators and the space).
IsSpace(c) == c \in {" ", "\t", "\n", "\r", "\f", VT, FS, GS, RS, US}

\* The regex class [a-z0-9_].
IsWordChar(c) == c \in Range(LowerLetters) \cup Digits \cup {"_"}

\* The characters str.lower() changes, and those str.upper() changes.
UpperCase == Range(UpperLetters)

LowerCase == Range(LowerLetters)

lower_char(c) ==
    IF c \in UpperCase
    THEN LowerLetters[CHOOSE i \in 1..Len(UpperLetters) : UpperLetters[i] = c]
    ELSE c

upper_char(c) ==
    IF c \in LowerCase
    THEN UpperLetters[CHOOSE i \in 1..Len(LowerLetters) : LowerLetters[i] = c]
    ELSE c

\* str.lower()
lower(text) == [i \in 1..Len(text) |-> lower_char(text[i])]

\* str.capitalize(): first character upper-cased, the rest lower-cased.
capitalize(text) ==
    [i \in 1..Len(text) |-> IF i = 1 THEN upper_char(text[i]) ELSE lower_char(text[i])]

\* str.strip(chars): drop the leading and trailing characters that are in chars.
strip_chars(text, chars) ==
    LET keep == {i \in 1..Len(text) : text[i] \notin chars}
    IN  IF keep = {} THEN <<>> ELSE SubSeq(text, SetMin(keep), SetMax(keep))

\* str.strip()
strip(text) ==
    LET keep == {i \in 1..Len(text) : ~IsSpace(text[i])}
    IN  IF keep = {} THEN <<>> ELSE SubSeq(text, SetMin(keep), SetMax(keep))

\* sep.join(texts)
RECURSIVE join(_, _)
join(sep, texts) ==
    IF texts = <<>> THEN <<>>
    ELSE IF Len(texts) = 1 THEN texts[1]
    ELSE texts[1] \o sep \o join(sep, Tail(texts))

\* re.sub(r'[\s-]', '_', text)
sub_space_hyphen(text) ==
    [i \in 1..Len(text) |-> IF IsSpace(text[i]) \/ text[i] = "-" THEN "_" ELSE text[i]]

\* re.sub(r'[^a-z0-9_]', '', text)
sub_non_word(text) == SelectSeq(text, IsWordChar)

FallbackName == <<"f","e","a","t","u","r","e","_","p","l","a","n">>

\* Drop every separator that directly follows another separator.
RECURSIVE collapse_runs(_)
collapse_runs(text) ==
    IF Len(text) < 2 THEN text
    ELSE IF text[1] = "_" /\ text[2] = "_" THEN collapse_runs(Tail(text))
    ELSE <<text[1]>> \o collapse_runs(Tail(text))

\* sanitize_filename with re.sub(r'[\s-]+', '_', text): runs of separators
\* collapse into one underscore.
sanitize_filename_collapsing(text) ==
    LET t1 == strip(lower(text))
        t2 == collapse_runs(sub_space_hyphen(t1))
        t3 == sub_non_word(t2)
        t4 == strip_chars(t3, {"_"})
    IN  IF t4 = <<>> THEN FallbackName ELSE t4

sanitize_filename(text) ==
    LET t1 == strip(lower(text))
        t2 == sub_space_hyphen(t1)
        t3 == sub_non_word(t2)
        t4 == strip_chars(t3, {"_"})
    IN  IF t4 = <<>> THEN FallbackName ELSE t4

(***************************************************************************)
(* Prompt templates and fixed texts, in miniature: each keeps the shape    *)
(* of the original (what it starts and ends with, where the parameters     *)
(* are interpolated).                                                      *)
(***************************************************************************)
\* SYSTEM_PROMPT.format(context_json=...): the template starts with a
\* newline and ends with "---" and a newline.
FormatSystemPrompt(ctx_json) ==
    <<"\n","Y","o","u",":">> \o ctx_json \o <<"\n","-","\n">>

\* The canned acknowledgment that seeds the chat as the model's turn.
SeedAck == <<"O","K",",","?">>

\* f"My initial idea is: \"{initial_idea}\". Let's start from there."
FirstPrompt(idea) == <<"M","y",":","\"">> \o idea \o <<"\"",".">>

RoleUser == <<"u","s","e","r">>

RoleModel == <<"m","o","d","e","l">>

AGENT_INSTRUCTIONS_FILENAME ==
    <<"A","G","E","N","T","_","I","N","S","T","R","U","C","T","I","O","N","S",
      ".","m","d">>

AGENT_INSTRUCTIONS_CONTENT == <<"\n","#"," ","A","g","e","n","t","\n">>

PlanSuffix == <<".","p","l","a","n",".","m","d">>

SpecSuffix == <<".","s","p","e","c",".","m","d">>

EmptyContextJson == <<"{","}">>

GreenfieldMsg == <<"g","r","e","e","n","f","i","e","l","d">>

\* The keyword list with "save" forgotten.
TerminationKeywords_no_save ==
    { <<"d","o","n","e">>, <<"f","i","n","i","s","h">>,
      <<"e","x","i","t">>, <<"q","u","i","t">>, <<"q">> }

TerminationKeywords ==
    { <<"d","o","n","e">>, <<"s","a","v","e">>, <<"f","i","n","i","s","h">>,
      <<"e","x","i","t">>, <<"q","u","i","t">>, <<"q">> }

Turn(r, t) == [role |-> r, text |-> t]

\* format_history_for_prompt: "[Role]: parts" per message, joined by newlines.
format_history_for_prompt(simple_history) ==
    join(<<"\n">>,
         [i \in 1..Len(simple_history) |->
            <<"[">> \o capitalize(simple_history[i].role) \o <<"]",":"," ">>
                   \o simple_history[i].text])

\* The loop of step 6 that skips every message whose text equals the system
\* prompt and keeps role and text of the others.
simple_history_of(chat_history, sys_prompt) ==
    SelectSeq(chat_history, LAMBDA msg : msg.text # sys_prompt)

(***************************************************************************)
(* The state of one run of main().                                         *)
(***************************************************************************)
VARIABLES
    pc,             \* position in main(): the step about to run, "exited"
                    \* or "killed" (terminated by an uncaught interrupt)
    environ,        \* GOOGLE_API_KEY after load_dotenv(): <<>> or <<value>>
    argv,           \* sys.argv: the program name, then the arguments
    context_file,   \* project.context.json: <<>> (missing) or <<document>>
    files,          \* the files main() writes or tests: name -> content
    initial_idea,
    feature_name,
    context_json,
    context_msg,
    system_prompt,
    history,        \* chat.history: the turns of the chat session
    log,            \* what the run has done so far, in order
    exit_status,    \* <<status>> once the process has exited, <<>> otherwise
    traceback,      \* TRUE when the run ended with an uncaught exception
    history_str,    \* the history as rendered for the synthesis prompts
    base_filename,
    text_in,        \* argument and result of a stand-alone call of
    text_out        \* sanitize_filename

vars == <<pc, environ, argv, context_file, files, initial_idea, feature_name,
          context_json, context_msg, system_prompt, history, log, exit_status,
          traceback, history_str, base_filename, text_in, text_out>>

\* One entry of the log: a console.print (label), a model call (text: the
\* response text; ok: whether it returned), the start of the chat, an input
\* line read (text: the raw line), a file opened for writing (text: the
\* file's name; ok: whether the open and the write succeeded), an interrupt
\* the loop caught, or the interrupt that ended the process.
Event(e, l, t, k) == [ev |-> e, label |-> l, text |-> t, ok |-> k]

Printed(l) == Event("print", l, <<>>, TRUE)

ModelCall(kind, t, k) == Event("call", kind, t, k)

InputRead(line) == Event("input", "", line, TRUE)

\* KeyboardInterrupt or EOFError raised inside the loop's try block.
Interrupt(exc) == Event("interrupt", exc, <<>>, TRUE)

OpenedForWrite(name, k) == Event("open_w", "", name, k)

\* The KeyboardInterrupt that ended the process, raised in the step `stage`
\* outside the loop's try block.
KilledAt(stage) == Event("killed", stage, <<>>, FALSE)

(***************************************************************************)
(* The environment of the runs explored.                                   *)
(***************************************************************************)
ProgramName == <<"p","l","a","n">>

Environs == { <<>>, << <<>> >>, << <<"k","e","y">> >> }

Argvs ==
    { <<ProgramName>>,
      <<ProgramName, <<"\f", VT>>, <<>> >>,
      <<ProgramName, <<"M","y">>, <<"a","p","p"," ">> >> }

\* A context document: whether json.load and the two .get chains succeed,
\* and then the pretty-printed payload and the summary message.
ContextFiles ==
    { <<>>,
      << [readable |-> FALSE, json |-> <<>>, msg |-> <<>>] >>,
      << [readable |-> TRUE, json |-> <<"{","X","}">>,
          msg |-> <<"c","t","x"," ","X">>] >> }

OldInstructions == <<"o","l","d">>

NoFiles == [n \in {} |-> <<>>]

InitialFiles == { NoFiles, AGENT_INSTRUCTIONS_FILENAME :> OldInstructions }

\* The responses the model may give.
NameResponses == { <<"\f",FS,"M","y","-","A","p","p","!",RS,"\n">> }

FirstResponses == { <<"W","h","y","?">> }

ChatResponses(sys_prompt) == { <<"o","k">>, sys_prompt }

PlanResponses == { <<"#","P">> }

SpecResponses == { <<"#","S">>, <<>>, <<" ","\f",GS,"\n">> }

\* The lines console.input may return.
InputLines ==
    { <<>>, <<" ","\f",VT>>, <<"h","i"," ">>,
      <<"d","o","n","e">>, <<"E","X","I","T">>, <<" ","q"," ">>,
      <<"f","i","n","i","s","h">>, <<"Q","u","i","t">>,
      <<"S","a","v","e","\t","\f",US>> }

Init ==
    /\ pc = "load_api_key"
    /\ environ \in Environs
    /\ argv \in Argvs
    /\ context_file \in ContextFiles
    /\ files \in InitialFiles
    /\ initial_idea = <<>>
    /\ feature_name = <<>>
    /\ context_json = <<>>
    /\ context_msg = <<>>
    /\ system_prompt = <<>>
    /\ history = <<>>
    /\ log = <<>>
    /\ exit_status = <<>>
    /\ traceback = FALSE
    /\ history_str = <<>>
    /\ base_filename = <<>>
    /\ text_in = <<>>
    /\ text_out = <<>>

\* sys.exit(status) after the prints `labels`.
Exit(labels, status) ==
    /\ pc' = "exited"
    /\ exit_status' = <<status>>
    /\ log' = log \o labels
    /\ UNCHANGED traceback

\* An exception no handler of main() catches: the interpreter prints the
\* traceback and the process ends with status 1.
Uncaught(events) ==
    /\ pc' = "exited"
    /\ exit_status' = <<1>>
    /\ traceback' = TRUE
    /\ log' = log \o events

\* A KeyboardInterrupt raised outside the try block of the loop, after the
\* events `events` of the step: no clause of main() catches it (the other
\* handlers are `except Exception`), so the interpreter prints the traceback
\* and the process is terminated by the signal, without an exit status.
Killed(stage, events) ==
    /\ pc' = "killed"
    /\ traceback' = TRUE
    /\ log' = log \o events \o <<KilledAt(stage)>>
    /\ UNCHANGED exit_status

\* What a step may have done when it is cut short: any leading part of its
\* events, the whole included.
Prefixes(events) == {SubSeq(events, 1, k) : k \in 0..Len(events)}

\* The values a variable may hold when the step is cut short after the
\* events `done`, for a variable the step assigns once `n` of its events
\* have happened.
AssignedAfter(done, n, old, new) ==
    IF Len(done) > n THEN {new}
    ELSE IF Len(done) = n THEN {old, new}
    ELSE {old}

\* os.getenv("GOOGLE_API_KEY")
os_getenv(env) == env

\* `api_key is None`: the empty string passes.
IsFalsy_none_only(opt) == opt = <<>>

\* `not api_key`: None or the empty string.
IsFalsy(opt) == opt = <<>> \/ opt[1] = <<>>

\* The welcome message, then 1. Load API Key
LoadApiKey ==
    /\ pc = "load_api_key"
    /\ LET api_key == os_getenv(environ)
           said == <<Printed("welcome")>> \o
                   IF IsFalsy(api_key)
                   THEN <<Printed("Error: GOOGLE_API_KEY not found"),
                          Printed("create a .env file"),
                          Printed("example key")>>
                   ELSE <<>>
       IN  \/ IF IsFalsy(api_key)
              THEN Exit(said, 1)
              ELSE /\ pc' = "get_initial_idea"
                   /\ log' = log \o said
                   /\ UNCHANGED <<exit_status, traceback>>
           \/ \E done \in Prefixes(said) : Killed("load_api_key", done)
    /\ UNCHANGED <<environ, argv, context_file, files, initial_idea,
                   feature_name, context_json, context_msg, system_prompt,
                   history, history_str, base_filename, text_in, text_out>>

\* 2. Get initial idea from command line arguments
GetInitialIdea ==
    /\ pc = "get_initial_idea"
    /\ LET idea == strip(join(<<" ">>, Tail(argv)))
           said == IF idea = <<>>
                   THEN <<Printed("Error: provide an initial feature idea"),
                          Printed("example idea")>>
                   ELSE <<>>
       IN  \/ /\ initial_idea' = idea
              /\ IF idea = <<>>
                 THEN Exit(said, 1)
                 ELSE /\ pc' = "generate_feature_name"
                      /\ UNCHANGED <<exit_status, traceback, log>>
           \/ \E done \in Prefixes(said) :
                /\ Killed("get_initial_idea", done)
                /\ initial_idea' \in AssignedAfter(done, 0, initial_idea, idea)
    /\ UNCHANGED <<environ, argv, context_file, files, feature_name,
                   context_json, context_msg, system_prompt, history,
                   history_str, base_filename, text_in, text_out>>

\* generate_feature_name: one model call; the stripped response text.
\* main() catches its failure and falls back to the initial idea.
GenerateFeatureName ==
    /\ pc = "generate_feature_name"
    /\ LET returned(r) == <<ModelCall("name", r, TRUE),
                            Printed("generated feature name"),
                            Printed("planning feature")>>
           failed == <<ModelCall("name", <<>>, FALSE),
                       Printed("Error generating feature name"),
                       Printed("planning feature")>>
       IN  \/ \E r \in NameResponses :
                /\ feature_name' = strip(r)
                /\ log' = log \o returned(r)
                /\ pc' = "load_context"
                /\ UNCHANGED <<exit_status, traceback>>
           \/ /\ feature_name' = initial_idea
              /\ log' = log \o failed
              /\ pc' = "load_context"
              /\ UNCHANGED <<exit_status, traceback>>
           \/ \E r \in NameResponses : \E done \in Prefixes(returned(r)) :
                /\ Killed("generate_feature_name", done)
                /\ feature_name' \in AssignedAfter(done, 1, feature_name, strip(r))
           \/ \E done \in Prefixes(failed) :
                /\ Killed("generate_feature_name", done)
                /\ feature_name' \in AssignedAfter(done, 2, feature_name, initial_idea)
    /\ UNCHANGED <<environ, argv, context_file, files, initial_idea,
                   context_json, context_msg, system_prompt, history,
                   history_str, base_filename, text_in, text_out>>

\* load_context whose except branch returns the greenfield message.
load_context_greenfield(file) ==
    IF file = <<>> THEN <<EmptyContextJson, GreenfieldMsg, <<>> >>
    ELSE IF file[1].readable THEN <<file[1].json, file[1].msg, <<>> >>
    ELSE <<EmptyContextJson, GreenfieldMsg,
           <<Printed("Error: found project.context.json but couldn't read it")>> >>

\* load_context: (context_json, context_msg), and what it prints
load_context(file) ==
    IF file = <<>> THEN <<EmptyContextJson, GreenfieldMsg, <<>> >>
    ELSE IF file[1].readable THEN <<file[1].json, file[1].msg, <<>> >>
    ELSE <<EmptyContextJson, <<>>,
           <<Printed("Error: found project.context.json but couldn't read it")>> >>

\* 3. Load project context
LoadContext ==
    /\ pc = "load_context"
    /\ LET loaded == load_context(context_file)
           said == loaded[3] \o <<Printed("context message")>>
       IN  \/ /\ context_json' = loaded[1]
              /\ context_msg' = loaded[2]
              /\ log' = log \o said
              /\ pc' = "start_chat"
              /\ UNCHANGED <<exit_status, traceback>>
           \/ \E done \in Prefixes(said) :
                /\ Killed("load_context", done)
                /\ \E assigned \in AssignedAfter(done, Len(loaded[3]), FALSE, TRUE) :
                     /\ context_json' = IF assigned THEN loaded[1] ELSE context_json
                     /\ context_msg' = IF assigned THEN loaded[2] ELSE context_msg
    /\ UNCHANGED <<environ, argv, context_file, files, initial_idea,
                   feature_name, system_prompt, history,
                   history_str, base_filename, text_in, text_out>>

\* The two turns that seed the chat.
SeedHistory(sys_prompt) == <<Turn(RoleUser, sys_prompt), Turn(RoleModel, SeedAck)>>

\* A session that keeps the turn received only.
send_message_response_only(chat_history, text, response) ==
    chat_history \o <<Turn(RoleModel, response)>>

\* chat.send_message(text) that returned `response`: the session keeps the
\* turn sent and the turn received.
send_message(chat_history, text, response) ==
    chat_history \o <<Turn(RoleUser, text), Turn(RoleModel, response)>>

\* 4. Set up the generative model and stateful chat; send the first idea.
StartChat ==
    /\ pc = "start_chat"
    /\ LET prompt == FormatSystemPrompt(context_json)
           first_prompt == FirstPrompt(initial_idea)
           seeded == SeedHistory(prompt)
           returned(r) == <<Event("start_chat", "", <<>>, TRUE),
                            ModelCall("send", r, TRUE),
                            Printed("agent response")>>
           failed == <<Event("start_chat", "", <<>>, TRUE),
                       ModelCall("send", <<>>, FALSE),
                       Printed("Error starting chat")>>
       IN  \/ \E r \in FirstResponses :
                /\ system_prompt' = prompt
                /\ history' = send_message(seeded, first_prompt, r)
                /\ log' = log \o returned(r)
                /\ pc' = "input_loop"
                /\ UNCHANGED <<exit_status, traceback>>
           \/ /\ system_prompt' = prompt
              /\ history' = seeded
              /\ Exit(failed, 1)
           \/ \E r \in FirstResponses :
              \E done \in Prefixes(returned(r)) \cup Prefixes(failed) :
                /\ Killed("start_chat", done)
                /\ system_prompt' \in AssignedAfter(done, 0, system_prompt, prompt)
                /\ history' = IF Len(done) = 0 THEN history
                              ELSE IF Len(done) = 1 \/ ~done[2].ok THEN seeded
                              ELSE send_message(seeded, first_prompt, r)
    /\ UNCHANGED <<environ, argv, context_file, files, initial_idea,
                   feature_name, context_json, context_msg, history_str,
                   base_filename, text_in, text_out>>

\* The loop without its except clause: the interrupt ends the process.
LoopInterrupted_uncaught(events) == Uncaught(events)

\* The except clause of the loop, after KeyboardInterrupt or EOFError: it
\* prints its message and the run goes on to the synthesis, unless a
\* KeyboardInterrupt arrives while it prints, which nothing catches.
LoopInterrupted(events) ==
    \/ /\ pc' = "synthesis"
       /\ log' = log \o events \o <<Printed("session ended, synthesizing")>>
       /\ UNCHANGED <<exit_status, traceback>>
    \/ Killed("interrupt_handler", events)

\* 5. One iteration of the chat loop in which console.input returns a line.
ReadInput ==
    /\ pc = "input_loop"
    /\ Cardinality({i \in 1..Len(log) : log[i].ev = "input"}) < MaxInputs
    /\ \E line \in InputLines :
         LET user_input == strip(line)
         IN  IF lower(user_input) \in TerminationKeywords
             THEN \/ /\ pc' = "synthesis"
                     /\ log' = log \o <<InputRead(line),
                                        Printed("synthesizing our conversation")>>
                     /\ UNCHANGED <<history, exit_status, traceback>>
                  \/ \* KeyboardInterrupt while the keyword branch prints
                     /\ LoopInterrupted(<<InputRead(line),
                                          Interrupt("KeyboardInterrupt")>>)
                     /\ UNCHANGED history
                  \/ \* KeyboardInterrupt after the keyword branch printed,
                     \* before its break
                     /\ LoopInterrupted(<<InputRead(line),
                                          Printed("synthesizing our conversation"),
                                          Interrupt("KeyboardInterrupt")>>)
                     /\ UNCHANGED history
             ELSE IF user_input = <<>>
             THEN /\ log' = Append(log, InputRead(line))
                  /\ UNCHANGED <<pc, history, exit_status, traceback>>
             ELSE \/ \E r \in ChatResponses(system_prompt) :
                       /\ history' = send_message(history, user_input, r)
                       /\ log' = log \o <<InputRead(line),
                                          ModelCall("send", r, TRUE),
                                          Printed("agent response")>>
                       /\ UNCHANGED <<pc, exit_status, traceback>>
                  \/ \* send_message raises an Exception: no handler
                     /\ Uncaught(<<InputRead(line), ModelCall("send", <<>>, FALSE)>>)
                     /\ UNCHANGED history
                  \/ \* KeyboardInterrupt while the turn is being sent
                     /\ LoopInterrupted(<<InputRead(line),
                                          Interrupt("KeyboardInterrupt")>>)
                     /\ UNCHANGED history
                  \/ \* KeyboardInterrupt after send_message returned,
                     \* while the response is printed
                     \E r \in ChatResponses(system_prompt) :
                       /\ history' = send_message(history, user_input, r)
                       /\ LoopInterrupted(<<InputRead(line),
                                            ModelCall("send", r, TRUE),
                                            Interrupt("KeyboardInterrupt")>>)
    /\ UNCHANGED <<environ, argv, context_file, files, initial_idea,
                   feature_name, context_json, context_msg, system_prompt,
                   history_str, base_filename, text_in, text_out>>

\* 5. console.input raises KeyboardInterrupt or EOFError.
InputInterrupted ==
    /\ pc = "input_loop"
    /\ \E exc \in {"KeyboardInterrupt", "EOFError"} :
         LoopInterrupted(<<Interrupt(exc)>>)
    /\ UNCHANGED history
    /\ UNCHANGED <<environ, argv, context_file, files, initial_idea,
                   feature_name, context_json, context_msg, system_prompt,
                   history_str, base_filename, text_in, text_out>>

\* The except clause of step 6.
SynthesisError(events) == Exit(events \o <<Printed("Error during synthesis")>>, 1)

\* open(name, "w") and f.write(content) that succeeded.
write_file(fs, name, content) == (name :> content) @@ fs

\* The outcomes of a `with open(name, "w") as f: f.write(content)` block.
WriteOutcomes == {"written", "open_fails", "write_fails"}

\* The files a block that raised may leave: open(name, "w") that failed
\* leaves them alone; open(name, "w") that succeeded has created or truncated
\* the file, which then holds the part of the content that reached it before
\* the write (or the flush of the close) raised.
failed_write(fs, name, content, io) ==
    IF io = "write_fails"
    THEN {write_file(fs, name, SubSeq(content, 1, k)) : k \in 0..Len(content)}
    ELSE {fs}

\* The files a step may leave when it is cut short after the events `done`,
\* the block that writes `name` being its event number `n`: untouched before
\* the block (or when the run never came to it), written after a block that
\* completed, and what a block that raised leaves otherwise.
FilesWhenCut(done, n, fs, name, content, io) ==
    IF Len(done) < n \/ done[n].ev # "open_w" THEN {fs}
    ELSE IF done[n].ok THEN {write_file(fs, name, content)}
    ELSE failed_write(fs, name, content, io)

\* 6. Final synthesis: render the history, generate and write the plan.
GeneratePlan ==
    /\ pc = "synthesis"
    /\ LET rendered == format_history_for_prompt(simple_history_of(history, system_prompt))
           base == sanitize_filename(feature_name)
           plan_md_file == base \o PlanSuffix
           written(r) == <<Printed("generating artifacts"),
                           ModelCall("plan", r, TRUE),
                           OpenedForWrite(plan_md_file, TRUE),
                           Printed("created plan")>>
           unwritten(r) == <<Printed("generating artifacts"),
                             ModelCall("plan", r, TRUE),
                             OpenedForWrite(plan_md_file, FALSE),
                             Printed("Error during synthesis")>>
           failed == <<Printed("generating artifacts"),
                       ModelCall("plan", <<>>, FALSE),
                       Printed("Error during synthesis")>>
       IN  \/ /\ history_str' = rendered
              /\ base_filename' = base
              /\ \/ \E r \in PlanResponses, io \in WriteOutcomes :
                      IF io = "written"
                      THEN /\ files' = write_file(files, plan_md_file, r)
                           /\ log' = log \o written(r)
                           /\ pc' = "generate_spec"
                           /\ UNCHANGED <<exit_status, traceback>>
                      ELSE /\ Exit(unwritten(r), 1)
                           /\ files' \in failed_write(files, plan_md_file, r, io)
                 \/ /\ Exit(failed, 1)
                    /\ UNCHANGED files
           \/ \E r \in PlanResponses, io \in WriteOutcomes :
              \E done \in Prefixes(IF io = "written" THEN written(r) ELSE unwritten(r))
                          \cup Prefixes(failed) :
                /\ Killed("synthesis", done)
                /\ files' \in FilesWhenCut(done, 3, files, plan_md_file, r, io)
                /\ history_str' \in AssignedAfter(done, 0, history_str, rendered)
                /\ base_filename' \in
                      IF history_str' = rendered
                      THEN AssignedAfter(done, 0, base_filename, base)
                      ELSE {base_filename}
    /\ UNCHANGED <<environ, argv, context_file, initial_idea, feature_name,
                   context_json, context_msg, system_prompt, history,
                   text_in, text_out>>

\* `not spec_response.text` without the strip.
IsEmptySpec_unstripped(text) == text = <<>>

\* `not spec_response.text.strip()`
IsEmptySpec(text) == strip(text) = <<>>

\* The runs of step 6 (the spec) that a KeyboardInterrupt cuts short.
GenerateSpecKilled(spec_md_file) ==
    LET refused(r) == <<ModelCall("spec", r, TRUE),
                        Printed("Error: no content for the spec file")>>
        written(r) == <<ModelCall("spec", r, TRUE),
                        OpenedForWrite(spec_md_file, TRUE),
                        Printed("created spec")>>
        unwritten(r) == <<ModelCall("spec", r, TRUE),
                          OpenedForWrite(spec_md_file, FALSE),
                          Printed("Error during synthesis")>>
        failed == <<ModelCall("spec", <<>>, FALSE),
                    Printed("Error during synthesis")>>
    IN  \E r \in SpecResponses, io \in WriteOutcomes :
        \E done \in Prefixes(IF IsEmptySpec(r) THEN refused(r)
                             ELSE IF io = "written" THEN written(r)
                             ELSE unwritten(r))
                    \cup Prefixes(failed) :
          /\ Killed("generate_spec", done)
          /\ files' \in FilesWhenCut(done, 2, files, spec_md_file, r, io)

\* Step 6 with the emptiness test placed after the write of the spec file.
GenerateSpec_write_first ==
    /\ pc = "generate_spec"
    /\ LET spec_md_file == base_filename \o SpecSuffix
       IN  \/ \E r \in SpecResponses, io \in WriteOutcomes :
                IF io # "written"
                THEN /\ SynthesisError(<<ModelCall("spec", r, TRUE),
                                         OpenedForWrite(spec_md_file, FALSE)>>)
                     /\ files' \in failed_write(files, spec_md_file, r, io)
                ELSE /\ files' = write_file(files, spec_md_file, r)
                     /\ IF IsEmptySpec(r)
                        THEN Exit(<<ModelCall("spec", r, TRUE),
                                    OpenedForWrite(spec_md_file, TRUE),
                                    Printed("Error: no content for the spec file")>>, 1)
                        ELSE /\ log' = log \o <<ModelCall("spec", r, TRUE),
                                                OpenedForWrite(spec_md_file, TRUE),
                                                Printed("created spec")>>
                             /\ pc' = "write_agent_instructions"
                             /\ UNCHANGED <<exit_status, traceback>>
           \/ /\ SynthesisError(<<ModelCall("spec", <<>>, FALSE)>>)
              /\ UNCHANGED files
           \/ GenerateSpecKilled(spec_md_file)
    /\ UNCHANGED <<environ, argv, context_file, initial_idea, feature_name,
                   context_json, context_msg, system_prompt, history,
                   history_str, base_filename, text_in, text_out>>

\* 6. Generate the spec, refuse an empty one, write it.
GenerateSpec ==
    /\ pc = "generate_spec"
    /\ LET spec_md_file == base_filename \o SpecSuffix
       IN  \/ \E r \in SpecResponses, io \in WriteOutcomes :
                IF IsEmptySpec(r)
                THEN /\ Exit(<<ModelCall("spec", r, TRUE),
                               Printed("Error: no content for the spec file")>>, 1)
                     /\ UNCHANGED files
                ELSE IF io = "written"
                THEN /\ files' = write_file(files, spec_md_file, r)
                     /\ log' = log \o <<ModelCall("spec", r, TRUE),
                                        OpenedForWrite(spec_md_file, TRUE),
                                        Printed("created spec")>>
                     /\ pc' = "write_agent_instructions"
                     /\ UNCHANGED <<exit_status, traceback>>
                ELSE /\ SynthesisError(<<ModelCall("spec", r, TRUE),
                                         OpenedForWrite(spec_md_file, FALSE)>>)
                     /\ files' \in failed_write(files, spec_md_file, r, io)
           \/ /\ SynthesisError(<<ModelCall("spec", <<>>, FALSE)>>)
              /\ UNCHANGED files
           \/ GenerateSpecKilled(spec_md_file)
    /\ UNCHANGED <<environ, argv, context_file, initial_idea, feature_name,
                   context_json, context_msg, system_prompt, history,
                   history_str, base_filename, text_in, text_out>>

\* os.path.exists(name)
os_path_exists(fs, name) == name \in DOMAIN fs

\* The runs of step 6 (the instructions) that a KeyboardInterrupt cuts short.
WriteAgentInstructionsKilled(found, checked) ==
    LET skipped == <<checked, Printed("found instructions, skipping"),
                     Printed("all files generated"),
                     Printed("artifacts ready")>>
        written == <<checked,
                     OpenedForWrite(AGENT_INSTRUCTIONS_FILENAME, TRUE),
                     Printed("created instructions"),
                     Printed("all files generated"),
                     Printed("artifacts ready")>>
        unwritten == <<checked,
                       OpenedForWrite(AGENT_INSTRUCTIONS_FILENAME, FALSE),
                       Printed("Error during synthesis")>>
    IN  \E io \in WriteOutcomes :
        \E done \in Prefixes(IF found THEN skipped
                             ELSE IF io = "written" THEN written
                             ELSE unwritten) :
          /\ Killed("write_agent_instructions", done)
          /\ files' \in FilesWhenCut(done, 2, files, AGENT_INSTRUCTIONS_FILENAME,
                                       AGENT_INSTRUCTIONS_CONTENT, io)

\* Step 6 with the test's result ignored: the file is written in any case.
WriteAgentInstructions_always ==
    /\ pc = "write_agent_instructions"
    /\ LET found == os_path_exists(files, AGENT_INSTRUCTIONS_FILENAME)
           checked == Event("exists", "", AGENT_INSTRUCTIONS_FILENAME, found)
       IN  \/ \E io \in WriteOutcomes :
                IF io = "written"
                THEN /\ files' = write_file(files, AGENT_INSTRUCTIONS_FILENAME,
                                            AGENT_INSTRUCTIONS_CONTENT)
                     /\ Exit(<<checked,
                               OpenedForWrite(AGENT_INSTRUCTIONS_FILENAME, TRUE),
                               Printed("created instructions"),
                               Printed("all files generated"),
                               Printed("artifacts ready")>>, 0)
                ELSE /\ SynthesisError(<<checked,
                           OpenedForWrite(AGENT_INSTRUCTIONS_FILENAME, FALSE)>>)
                     /\ files' \in failed_write(files, AGENT_INSTRUCTIONS_FILENAME,
                                            AGENT_INSTRUCTIONS_CONTENT, io)
           \/ WriteAgentInstructionsKilled(FALSE, checked)
    /\ UNCHANGED <<environ, argv, context_file, initial_idea, feature_name,
                   context_json, context_msg, system_prompt, history,
                   history_str, base_filename, text_in, text_out>>

\* 6. Write AGENT_INSTRUCTIONS.md unless it exists; report success; return.
WriteAgentInstructions ==
    /\ pc = "write_agent_instructions"
    /\ LET found == os_path_exists(files, AGENT_INSTRUCTIONS_FILENAME)
           checked == Event("exists", "", AGENT_INSTRUCTIONS_FILENAME, found)
       IN  \/ IF found
              THEN /\ Exit(<<checked, Printed("found instructions, skipping"),
                             Printed("all files generated"),
                             Printed("artifacts ready")>>, 0)
                   /\ UNCHANGED files
              ELSE \E io \in WriteOutcomes :
                   IF io = "written"
                   THEN /\ files' = write_file(files, AGENT_INSTRUCTIONS_FILENAME,
                                               AGENT_INSTRUCTIONS_CONTENT)
                        /\ Exit(<<checked,
                                  OpenedForWrite(AGENT_INSTRUCTIONS_FILENAME, TRUE),
                                  Printed("created instructions"),
                                  Printed("all files generated"),
                                  Printed("artifacts ready")>>, 0)
                   ELSE /\ SynthesisError(<<checked,
                              OpenedForWrite(AGENT_INSTRUCTIONS_FILENAME, FALSE)>>)
                        /\ files' \in failed_write(files, AGENT_INSTRUCTIONS_FILENAME,
                                               AGENT_INSTRUCTIONS_CONTENT, io)
           \/ WriteAgentInstructionsKilled(found, checked)
    /\ UNCHANGED <<environ, argv, context_file, initial_idea, feature_name,
                   context_json, context_msg, system_prompt, history,
                   history_str, base_filename, text_in, text_out>>

Next ==
    \/ LoadApiKey
    \/ GetInitialIdea
    \/ GenerateFeatureName
    \/ LoadContext
    \/ StartChat
    \/ ReadInput
    \/ InputInterrupted
    \/ GeneratePlan
    \/ GenerateSpec
    \/ WriteAgentInstructions

Spec == Init /\ [][Next]_vars

(***************************************************************************)
(* sanitize_filename called on its own, on every text up to MaxLen over    *)
(* an alphabet with one character of each class the function separates.    *)
(***************************************************************************)
SanitizeAlphabet == {"a", "B", "7", " ", "\f", VT, "-", "_", "!"}

SanitizeInputs == UNION {[1..n -> SanitizeAlphabet] : n \in 0..MaxLen}

SanitizeInit ==
    /\ pc = "sanitize"
    /\ text_in \in SanitizeInputs
    /\ text_out = <<>>
    /\ environ = <<>>
    /\ argv = <<ProgramName>>
    /\ context_file = <<>>
    /\ files = NoFiles
    /\ initial_idea = <<>>
    /\ feature_name = <<>>
    /\ context_json = <<>>
    /\ context_msg = <<>>
    /\ system_prompt = <<>>
    /\ history = <<>>
    /\ log = <<>>
    /\ exit_status = <<>>
    /\ traceback = FALSE
    /\ history_str = <<>>
    /\ base_filename = <<>>

Sanitize ==
    /\ pc = "sanitize"
    /\ text_out' = sanitize_filename(text_in)
    /\ pc' = "sanitized"
    /\ UNCHANGED <<environ, argv, context_file, files, initial_idea,
                   feature_name, context_json, context_msg, system_prompt,
                   history, log, exit_status, traceback, history_str,
                   base_filename, text_in>>

SanitizeNext == Sanitize

SpecSanitize == SanitizeInit /\ [][SanitizeNext]_vars

(***************************************************************************)
(* Vocabulary of the properties.                                           *)
(***************************************************************************)
HasPrinted(l) == \E i \in 1..Len(log) : log[i].ev = "print" /\ log[i].label = l

IsCall(e, kind) == e.ev = "call" /\ e.label = kind

\* The credential is absent: unset, or set to the empty string.
CredentialAbsent == environ = <<>> \/ Len(environ[1]) = 0

\* No argument holds anything but whitespace.
IdeaMissing ==
    \A i \in 2..Len(argv) : \A j \in 1..Len(argv[i]) : IsSpace(argv[i][j])

\* Nothing but console output has happened.
NoEffects ==
    /\ \A i \in 1..Len(log) : log[i].ev \in {"print", "killed"}
    /\ history = <<>>
    /\ files \in InitialFiles

\* A text of whitespace only (or empty).
Blank(text) == \A i \in 1..Len(text) : IsSpace(text[i])

\* The keywords as the specification lists them.
ListedKeywords ==
    { <<"d","o","n","e">>, <<"s","a","v","e">>, <<"f","i","n","i","s","h">>,
      <<"e","x","i","t">>, <<"q","u","i","t">>, <<"q">> }

IsKeywordLine(line) == lower(strip(line)) \in ListedKeywords

SynthesisStages == {"synthesis", "generate_spec", "write_agent_instructions", "exited"}

\* The process was terminated by a KeyboardInterrupt raised in one of `stages`.
KilledIn(stages) ==
    /\ pc = "killed"
    /\ exit_status = <<>> /\ traceback
    /\ log[Len(log)].ev = "killed" /\ log[Len(log)].label \in stages

OpenedNames == 
    LET opens == SelectSeq(log, LAMBDA e : e.ev = "open_w")
    IN  [i \in 1..Len(opens) |-> opens[i].text]

(***************************************************************************)
(* C1.  Missing credential or missing idea.                                *)
(***************************************************************************)
\* C1 as stated: whenever the credential is absent the run exits with status 1
\* having printed the credential-missing message, and whenever the idea is
\* empty it exits with status 1 having printed the missing-idea message; in
\* both cases nothing but printing happened before the exit.
C1_Original ==
    pc = "exited" =>
        /\ CredentialAbsent =>
              /\ exit_status = <<1>>
              /\ HasPrinted("Error: GOOGLE_API_KEY not found")
              /\ NoEffects
        /\ IdeaMissing =>
              /\ exit_status = <<1>>
              /\ HasPrinted("Error: provide an initial feature idea")
              /\ NoEffects

\* C1 (amended): a run with the credential absent, or with the credential
\* present and the idea empty, never gets past its check: it makes no model
\* call, starts no chat, reads no input and writes no file.  It ends by
\* exiting with status 1 after the credential-missing message (credential
\* absent, whatever the idea) or the missing-idea message (credential
\* present, idea empty), or, when a keyboard interrupt arrives before that
\* exit, terminated by the interrupt, which nothing catches there.
C1_EarlyExit ==
    /\ CredentialAbsent =>
          /\ pc \in {"load_api_key", "exited", "killed"}
          /\ NoEffects
          /\ pc = "exited" =>
                /\ exit_status = <<1>> /\ ~traceback
                /\ HasPrinted("Error: GOOGLE_API_KEY not found")
                /\ ~HasPrinted("Error: provide an initial feature idea")
          /\ pc = "killed" => KilledIn({"load_api_key"})
    /\ (~CredentialAbsent /\ IdeaMissing) =>
          /\ pc \in {"load_api_key", "get_initial_idea", "exited", "killed"}
          /\ NoEffects
          /\ pc = "exited" =>
                /\ exit_status = <<1>> /\ ~traceback
                /\ HasPrinted("Error: provide an initial feature idea")
          /\ pc = "killed" => KilledIn({"load_api_key", "get_initial_idea"})

\* A run with an empty-string credential and one with only blank arguments
\* have both exited.
C1_Witness ==
    /\ pc = "exited"
    /\ exit_status = <<1>>
    /\ \/ environ = << <<>> >>
       \/ ~CredentialAbsent /\ Len(argv) = 3 /\ IdeaMissing

(***************************************************************************)
(* C2.  Termination keywords.                                              *)
(***************************************************************************)
\* A run that has come to the synthesis stage: it is there, or it has ended
\* there.
ReachedSynthesis ==
    pc \in SynthesisStages \/ KilledIn(SynthesisStages \ {"exited"})

\* C2 as stated: an input line whose trimmed, lower-cased text is a
\* termination keyword is the last line read, no turn is sent after it, no
\* user turn of the chat is a keyword, and the run has proceeded to the
\* synthesis stage.
C2_Original ==
    /\ \A i \in 1..Len(log) :
         (log[i].ev = "input" /\ IsKeywordLine(log[i].text)) =>
            /\ \A j \in (i+1)..Len(log) :
                  log[j].ev # "input" /\ ~IsCall(log[j], "send")
            /\ ReachedSynthesis
    /\ \A k \in 1..Len(history) :
         history[k].role = RoleUser => lower(history[k].text) \notin ListedKeywords

\* C2 (amended): an input line whose trimmed, lower-cased text is a
\* termination keyword is the last line read, no turn is sent after it and no
\* user turn of the chat is a keyword.  The run proceeds to the synthesis
\* stage, after the keyword's announcement or, when a keyboard interrupt
\* arrived during or just after that announcement, after the message of the
\* interrupt handler; it does not reach the synthesis only when a second
\* keyboard interrupt arrives during the handler's message, which nothing
\* catches: the process is then terminated.
C2_KeywordEndsLoop ==
    /\ \A i \in 1..Len(log) :
         (log[i].ev = "input" /\ IsKeywordLine(log[i].text)) =>
            /\ \A j \in (i+1)..Len(log) :
                  log[j].ev # "input" /\ ~IsCall(log[j], "send")
            /\ i < Len(log)
            /\ LET k == IF log[i+1] = Printed("synthesizing our conversation")
                        THEN i + 2 ELSE i + 1
               IN  \/ /\ ReachedSynthesis
                      /\ k = i + 2
                   \/ /\ ReachedSynthesis
                      /\ k < Len(log)
                      /\ log[k] = Interrupt("KeyboardInterrupt")
                      /\ log[k+1] = Printed("session ended, synthesizing")
                   \/ /\ KilledIn({"interrupt_handler"})
                      /\ k + 1 = Len(log)
                      /\ log[k] = Interrupt("KeyboardInterrupt")
    /\ \A k \in 1..Len(history) :
         history[k].role = RoleUser => lower(history[k].text) \notin ListedKeywords

\* The line " q " was read after another line and the plan has been written.
C2_Witness ==
    /\ pc = "generate_spec"
    /\ \E i \in 2..Len(log) :
         /\ log[i].ev = "input" /\ log[i].text = <<" ","q"," ">>
         /\ \E j \in 1..(i-1) : IsCall(log[j], "send") /\ log[j].ok

(***************************************************************************)
(* C3.  Empty spec output.                                                 *)
(***************************************************************************)
\* C3 as stated: when the spec-generation call returned empty or
\* whitespace-only text, the process has exited with status 1 and
\* <base>.spec.md was not opened for writing and does not exist.
C3_Original ==
    \A i \in 1..Len(log) :
        (IsCall(log[i], "spec") /\ log[i].ok /\ Blank(log[i].text)) =>
            /\ pc = "exited"
            /\ exit_status = <<1>>
            /\ \A j \in 1..Len(log) :
                  log[j].ev = "open_w" => log[j].text # base_filename \o SpecSuffix
            /\ (base_filename \o SpecSuffix) \notin DOMAIN files

\* C3 (amended): when the spec-generation call returned empty or
\* whitespace-only text, the run ends there and <base>.spec.md was not opened
\* for writing and does not exist: the process has exited with status 1
\* after the no-content message and nothing else, or a keyboard interrupt
\* that arrived before that exit, which nothing catches, has terminated it.
C3_EmptySpecIsFatal ==
    \A i \in 1..Len(log) :
        (IsCall(log[i], "spec") /\ log[i].ok /\ Blank(log[i].text)) =>
            /\ \/ /\ pc = "exited"
                  /\ exit_status = <<1>> /\ ~traceback
                  /\ SubSeq(log, i + 1, Len(log)) =
                        <<Printed("Error: no content for the spec file")>>
               \/ /\ KilledIn({"generate_spec"})
                  /\ SubSeq(log, i + 1, Len(log) - 1) \in
                        Prefixes(<<Printed("Error: no content for the spec file")>>)
            /\ \A j \in 1..Len(log) :
                  log[j].ev = "open_w" => log[j].text # base_filename \o SpecSuffix
            /\ (base_filename \o SpecSuffix) \notin DOMAIN files

\* The spec call returned a blank, non-empty text.
C3_Witness ==
    /\ pc = "exited"
    /\ \E i \in 1..Len(log) :
         IsCall(log[i], "spec") /\ log[i].ok /\ log[i].text = <<" ","\f",GS,"\n">>

(***************************************************************************)
(* C4.  The files of a successful run.                                     *)
(***************************************************************************)
ResponseOf(kind) ==
    log[CHOOSE i \in 1..Len(log) : IsCall(log[i], kind) /\ log[i].ok].text

InstructionsFound ==
    \E i \in 1..Len(log) : log[i].ev = "exists" /\ log[i].ok

\* C4: a run that exited with status 0 opened for writing exactly
\* <base>.plan.md, <base>.spec.md and, if and only if it was missing when
\* checked, AGENT_INSTRUCTIONS.md; the plan and spec files hold the plan and
\* spec texts; the instructions file holds the static content when it was
\* written and its old content when it was found.  In every state, an
\* instructions file that was found has not been opened for writing.
C4_FilesWritten ==
    /\ (pc = "exited" /\ exit_status = <<0>>) =>
          LET plan_md_file == base_filename \o PlanSuffix
              spec_md_file == base_filename \o SpecSuffix
          IN  /\ OpenedNames =
                    IF InstructionsFound
                    THEN <<plan_md_file, spec_md_file>>
                    ELSE <<plan_md_file, spec_md_file, AGENT_INSTRUCTIONS_FILENAME>>
              /\ \A i \in 1..Len(log) : log[i].ev = "open_w" => log[i].ok
              /\ DOMAIN files =
                    {plan_md_file, spec_md_file, AGENT_INSTRUCTIONS_FILENAME}
              /\ files[plan_md_file] = ResponseOf("plan")
              /\ files[spec_md_file] = ResponseOf("spec")
              /\ files[AGENT_INSTRUCTIONS_FILENAME] =
                    IF InstructionsFound THEN OldInstructions
                    ELSE AGENT_INSTRUCTIONS_CONTENT
    /\ InstructionsFound =>
          /\ \A i \in 1..Len(log) :
                log[i].ev = "open_w" => log[i].text # AGENT_INSTRUCTIONS_FILENAME
          /\ files[AGENT_INSTRUCTIONS_FILENAME] = OldInstructions

\* A successful run that found the instructions file.
C4_Witness ==
    /\ pc = "exited" /\ exit_status = <<0>>
    /\ InstructionsFound
    /\ base_filename = <<"m","y","_","a","p","p">>

(***************************************************************************)
(* C5.  Interrupt and end of input in the loop.                            *)
(***************************************************************************)
NewEvents == SubSeq(log', Len(log) + 1, Len(log'))

\* A step of the loop in which KeyboardInterrupt or EOFError is raised.
InterruptStep ==
    /\ pc = "input_loop"
    /\ \E i \in 1..Len(NewEvents) : NewEvents[i].ev = "interrupt"

\* A step of the loop that reads a termination keyword.
KeywordStep ==
    /\ pc = "input_loop"
    /\ \E i \in 1..Len(NewEvents) :
         NewEvents[i].ev = "input" /\ IsKeywordLine(NewEvents[i].text)

\* The history accumulated when the loop is left: the history before the
\* step, with the turn of the step when its send had returned.
AccumulatedHistory ==
    IF \E i \in 2..Len(NewEvents) : IsCall(NewEvents[i], "send") /\ NewEvents[i].ok
    THEN send_message(history, strip(NewEvents[1].text), NewEvents[2].text)
    ELSE history

\* What leaving the loop for the synthesis stage does: nothing but the
\* position of the run (and its console output) changes.
EntersSynthesis ==
    /\ pc' = "synthesis"
    /\ exit_status' = <<>> /\ ~traceback'
    /\ history' = AccumulatedHistory
    /\ UNCHANGED <<files, initial_idea, feature_name, context_json,
                   context_msg, system_prompt, history_str, base_filename>>

\* What a keyboard interrupt during the message of the interrupt handler
\* does: the process is terminated, with the history accumulated so far and
\* no file touched.
KilledInHandler ==
    /\ pc' = "killed"
    /\ exit_status' = <<>> /\ traceback'
    /\ NewEvents[Len(NewEvents)] = KilledAt("interrupt_handler")
    /\ Len(NewEvents) >= 2 /\ NewEvents[Len(NewEvents) - 1].ev = "interrupt"
    /\ history' = AccumulatedHistory
    /\ UNCHANGED files

\* C5 as stated: every interrupt or end of input in the loop does what a
\* termination keyword does: the run enters the synthesis stage with the
\* history accumulated so far.
C5_Original ==
    [][(InterruptStep \/ KeywordStep) => EntersSynthesis]_vars

\* C5 (amended): an interrupt or end of input in the loop, while waiting for
\* a line or while a turn is being sent or its response printed, is caught
\* and the run enters the synthesis stage as after a termination keyword,
\* with the history accumulated so far and every other variable the
\* synthesis reads unchanged, unless a keyboard interrupt arrives while the
\* handler prints its message, which terminates the process; a termination
\* keyword that no interrupt follows always enters the synthesis stage.
C5_InterruptLikeKeyword ==
    /\ [][InterruptStep => (EntersSynthesis \/ KilledInHandler)]_vars
    /\ [][(KeywordStep /\ ~InterruptStep) => EntersSynthesis]_vars

\* The plan was written after a turn was interrupted when its response had
\* arrived, which the history holds.
C5_Witness ==
    /\ pc = "generate_spec"
    /\ \E i \in 3..Len(log) :
         /\ log[i].ev = "interrupt" /\ log[i].label = "KeyboardInterrupt"
         /\ IsCall(log[i-1], "send") /\ log[i-1].ok
         /\ log[i-2].ev = "input"
         /\ history[Len(history)].text = log[i-1].text

(***************************************************************************)
(* C6.  How a run ends.                                                    *)
(***************************************************************************)
ErrorLabels ==
    { "Error: GOOGLE_API_KEY not found",
      "Error: provide an initial feature idea",
      "Error starting chat",
      "Error: no content for the spec file",
      "Error during synthesis" }

\* C6 as stated: a run that has ended has status 0 with the three artifacts
\* in place, or status 1 after a labeled error message and without an
\* uncaught exception.
C6_Original ==
    pc = "exited" =>
        \/ /\ exit_status = <<0>>
           /\ {base_filename \o PlanSuffix, base_filename \o SpecSuffix,
               AGENT_INSTRUCTIONS_FILENAME} \subseteq DOMAIN files
        \/ /\ exit_status = <<1>>
           /\ ~traceback
           /\ \E l \in ErrorLabels : HasPrinted(l)

(***************************************************************************)
(* C7.  Which failures are fatal.                                          *)
(***************************************************************************)
FailedCall(i) == log[i].ev = "call" /\ ~log[i].ok

\* C7 as stated: after a failed model call of any kind (the feature-name
\* call included) no file is opened for writing.
C7_Original ==
    \A i \in 1..Len(log) :
        FailedCall(i) => \A j \in (i+1)..Len(log) : log[j].ev # "open_w"

\* The failed call at position i is the first chat message, the plan call
\* or the spec call.
FatalCall(i) ==
    /\ FailedCall(i)
    /\ \/ log[i].label \in {"plan", "spec"}
       \/ log[i].label = "send" /\ i > 1 /\ log[i-1].ev = "start_chat"

\* The message main() prints for the failed call at position i.
FailureMessage(i) ==
    IF log[i].label = "send" THEN Printed("Error starting chat")
    ELSE Printed("Error during synthesis")

\* C7 (amended): the run recovers from a malformed project.context.json
\* (empty context "{}", empty summary message) and from a failed feature-name
\* call (the initial idea becomes the feature name); a failed first chat
\* message, plan call or spec call is fatal: the run ends there, with no
\* call, no input and no file opened after the failure, either exited with
\* status 1 after its error message or terminated by a keyboard interrupt
\* that arrived before that exit.
C7_FatalModelCalls ==
    /\ \A i \in 1..Len(log) :
         FatalCall(i) =>
            \/ /\ pc = "exited"
               /\ exit_status = <<1>> /\ ~traceback
               /\ SubSeq(log, i + 1, Len(log)) = <<FailureMessage(i)>>
            \/ /\ KilledIn({"start_chat", "synthesis", "generate_spec"})
               /\ SubSeq(log, i + 1, Len(log) - 1) \in Prefixes(<<FailureMessage(i)>>)
    /\ \A i \in 1..Len(log) :
         (FailedCall(i) /\ log[i].label = "name" /\ HasPrinted("planning feature"))
            => feature_name = initial_idea
    /\ (context_file # <<>> /\ ~context_file[1].readable
            /\ HasPrinted("context message")) =>
          /\ context_json = <<"{","}">>
          /\ context_msg = <<>>

\* After a failed feature-name call and a malformed context file the run has
\* written its plan.
C7_Witness ==
    /\ pc = "generate_spec"
    /\ \E i \in 1..Len(log) : FailedCall(i) /\ log[i].label = "name"
    /\ context_file # <<>> /\ ~context_file[1].readable
    /\ (base_filename \o PlanSuffix) \in DOMAIN files

(***************************************************************************)
(* C8.  sanitize_filename.                                                 *)
(***************************************************************************)
IsAlnum(c) == lower_char(c) \in Range(LowerLetters) \cup Digits

IsToken(text) ==
    /\ text # <<>>
    /\ \A i \in 1..Len(text) : text[i] \in Range(LowerLetters) \cup Digits \cup {"_"}
    /\ text[1] # "_"
    /\ text[Len(text)] # "_"

\* The claimed result: lower-case, every maximal run of non-alphanumeric
\* characters replaced by one underscore, no underscore at either end.
ClaimedToken(text) ==
    LET t == lower(text)
        starts == {i \in 1..Len(t) : IsAlnum(t[i]) \/ i = 1 \/ IsAlnum(t[i-1])}
        picked == SelectSeq([i \in 1..Len(t) |-> <<i, t[i]>>],
                            LAMBDA p : p[1] \in starts)
        u == [i \in 1..Len(picked) |->
                IF IsAlnum(picked[i][2]) THEN picked[i][2] ELSE "_"]
    IN  strip_chars(u, {"_"})

\* C8 as stated: the result is the token in which every maximal run of
\* non-alphanumeric characters is one underscore, or "feature_plan" when
\* nothing remains.
C8_Original ==
    pc = "sanitized" =>
        text_out = IF ClaimedToken(text_in) = <<>> THEN FallbackName
                   ELSE ClaimedToken(text_in)

\* What is left of the input between its first and its last alphanumeric
\* character: letters and digits (lower-cased), one underscore for each
\* whitespace character, hyphen or underscore, nothing for anything else.
KeptBetween(text) ==
    LET at == {i \in 1..Len(text) : IsAlnum(text[i])}
        inner == SubSeq(text, SetMin(at), SetMax(at))
        mapped == [i \in 1..Len(inner) |->
                     IF IsAlnum(inner[i]) THEN lower_char(inner[i])
                     ELSE IF IsSpace(inner[i]) \/ inner[i] \in {"-", "_"} THEN "_"
                     ELSE "!"]
    IN  SelectSeq(mapped, LAMBDA c : c # "!")

\* C8 (amended): the result is a non-empty token of lowercase letters, digits
\* and underscores with no underscore at either end; it is "feature_plan"
\* when the input has no letter or digit, and otherwise the input between its
\* first and last letter or digit, lower-cased, with each whitespace
\* character, hyphen or underscore turned into one underscore (a run of k of
\* them gives k underscores) and every other character deleted.
C8_Sanitized ==
    pc = "sanitized" =>
        /\ IsToken(text_out)
        /\ text_out =
              IF \E i \in 1..Len(text_in) : IsAlnum(text_in[i])
              THEN KeptBetween(text_in)
              ELSE FallbackName

\* A run of two separators stays two underscores and punctuation is deleted.
C8_Witness ==
    /\ pc = "sanitized"
    /\ text_in = <<"a", " ", "-", "B">>
    /\ text_out = <<"a", "_", "_", "b">>

(***************************************************************************)
(* C9.  The history rendered for the synthesis prompts.                    *)
(***************************************************************************)
Rendered ==
    \/ pc \in {"generate_spec", "write_agent_instructions"}
    \/ pc = "exited" /\ HasPrinted("generating artifacts")

TurnLine(turn) ==
    IF turn.role = RoleUser
    THEN <<"[","U","s","e","r","]",":"," ">> \o turn.text
    ELSE <<"[","M","o","d","e","l","]",":"," ">> \o turn.text

\* C9 as stated: the rendered history is one "[Role]: content" line for each
\* turn of the chat history but the first (the system prompt), in order.
C9_Original ==
    Rendered =>
        history_str =
            join(<<"\n">>, [i \in 1..(Len(history) - 1) |-> TurnLine(history[i+1])])

(***************************************************************************)
(* C10.  The shape of the conversation history.                            *)
(***************************************************************************)
ChatStarted == \E i \in 1..Len(log) : log[i].ev = "start_chat"

ChatInitialized ==
    \E i \in 1..Len(log) : IsCall(log[i], "send") /\ log[i].ok

Seed ==
    << [role |-> RoleUser, text |-> system_prompt],
       [role |-> RoleModel, text |-> SeedAck] >>

\* The input lines read so far that are neither blank nor a keyword.
TurnLines ==
    LET lines == SelectSeq(log, LAMBDA e : e.ev = "input" /\ ~Blank(e.text)
                                           /\ ~IsKeywordLine(e.text))
    IN  [i \in 1..Len(lines) |-> lines[i].text]

\* C10 as stated, for the runs that do not end in an uncaught exception: once
\* the chat is initialized the history is the two seed turns, the pair of
\* the initial idea, and one user/model pair per input line read that is
\* neither blank nor a keyword.
C10_Original ==
    (ChatInitialized /\ ~traceback) =>
        /\ Len(history) = 4 + 2 * Len(TurnLines)
        /\ SubSeq(history, 1, 2) = Seed
        /\ history[3] = [role |-> RoleUser, text |-> FirstPrompt(initial_idea)]
        /\ history[4].role = RoleModel
        /\ \A k \in 1..Len(TurnLines) :
              /\ history[3 + 2*k] = [role |-> RoleUser, text |-> strip(TurnLines[k])]
              /\ history[4 + 2*k].role = RoleModel

\* The turns the calls logged from position i on account for: for every send
\* that returned, the turn sent (the line read just before it, trimmed, or
\* the first prompt) and the turn received.
RECURSIVE TurnsFrom(_)
TurnsFrom(i) ==
    IF i > Len(log) THEN <<>>
    ELSE IF IsCall(log[i], "send") /\ log[i].ok
    THEN << [role |-> RoleUser,
             text |-> IF log[i-1].ev = "input" THEN strip(log[i-1].text)
                      ELSE FirstPrompt(initial_idea)],
            [role |-> RoleModel, text |-> log[i].text] >> \o TurnsFrom(i + 1)
    ELSE TurnsFrom(i + 1)

\* Each line read is followed by what its kind allows: nothing is sent for
\* a blank line or a keyword; any other line is followed by its send (which
\* returned or failed) or by the interrupt that cut it short.
LinesClassified ==
    \A i \in 1..Len(log) :
        log[i].ev = "input" =>
            IF Blank(log[i].text) \/ IsKeywordLine(log[i].text)
            THEN i = Len(log) \/ log[i+1].ev \in {"input", "print", "interrupt"}
            ELSE /\ i < Len(log)
                 /\ IsCall(log[i+1], "send") \/ log[i+1].ev = "interrupt"

HistoryShape ==
    /\ history = IF ChatStarted THEN Seed \o TurnsFrom(1) ELSE <<>>
    /\ LinesClassified

HistoryGrows ==
    /\ Len(history) <= Len(history')
    /\ SubSeq(history', 1, Len(history)) = history

\* C10 (amended): once the chat is started the history is the two seed turns
\* followed by strictly alternating user/model pairs: one for the initial
\* idea if its send returned, and one, in input order, for each input line
\* that is not blank, is not a keyword and whose send returned a response; a
\* blank line or a keyword sends nothing, a line whose send failed or was
\* interrupted adds no turn, and every step leaves the turns already in the
\* history as they are.
C10_HistoryShape == [](HistoryShape) /\ [][HistoryGrows]_vars

\* A blank line was read, then the line "hi " was sent and answered: the
\* history holds the seed, the pair of the idea and the pair of that line.
C10_Witness ==
    /\ Len(history) = 6
    /\ history[5].text = <<"h","i">>
    /\ \E i \in 1..Len(log) : log[i].ev = "input" /\ log[i].text = <<" ","\f",VT>>
    /\ pc = "synthesis"

(***************************************************************************)
(* C11.  The order of the artifacts.                                       *)
(***************************************************************************)
\* The file `name` was opened for writing, and written, before position i
\* of the log.
WrittenBefore(name, i) ==
    \E j \in 1..(i-1) : log[j].ev = "open_w" /\ log[j].ok /\ log[j].text = name

OpenedAt(name, i) == log[i].ev = "open_w" /\ log[i].text = name

\* The spec-generation call failed, or returned empty or whitespace-only text.
SpecGenerationFailedAt(i) ==
    /\ IsCall(log[i], "spec")
    /\ ~log[i].ok \/ Blank(log[i].text)

\* C11: the plan file is written before the spec-generation call is issued,
\* the spec file is opened only after the plan file was written and
\* AGENT_INSTRUCTIONS.md only after the spec file was written; and a run
\* whose spec generation failed or returned blank text, however it ends
\* (the exit with status 1 included), has <base>.plan.md in place, holding
\* the plan text, while neither <base>.spec.md nor AGENT_INSTRUCTIONS.md was
\* opened for writing: the spec file does not exist and the instructions
\* file, if any, is the old one.
C11_ArtifactOrder ==
    LET plan_md_file == base_filename \o PlanSuffix
        spec_md_file == base_filename \o SpecSuffix
    IN  \A i \in 1..Len(log) :
          /\ IsCall(log[i], "spec") => WrittenBefore(plan_md_file, i)
          /\ OpenedAt(spec_md_file, i) => WrittenBefore(plan_md_file, i)
          /\ OpenedAt(AGENT_INSTRUCTIONS_FILENAME, i) =>
                WrittenBefore(spec_md_file, i)
          /\ SpecGenerationFailedAt(i) =>
                /\ plan_md_file \in DOMAIN files
                /\ files[plan_md_file] = ResponseOf("plan")
                /\ \A j \in 1..Len(log) :
                      /\ ~OpenedAt(spec_md_file, j)
                      /\ ~OpenedAt(AGENT_INSTRUCTIONS_FILENAME, j)
                /\ spec_md_file \notin DOMAIN files
                /\ AGENT_INSTRUCTIONS_FILENAME \in DOMAIN files =>
                      files[AGENT_INSTRUCTIONS_FILENAME] = OldInstructions

\* The spec call failed after the plan "#P" was written, in a directory
\* without an instructions file.
C11_Witness ==
    /\ pc = "exited" /\ exit_status = <<1>>
    /\ \E i \in 1..Len(log) : IsCall(log[i], "spec") /\ ~log[i].ok
    /\ (base_filename \o PlanSuffix) \in DOMAIN files
    /\ files[base_filename \o PlanSuffix] = <<"#","P">>
    /\ AGENT_INSTRUCTIONS_FILENAME \notin DOMAIN files

====
